---- MODULE Spec2Model ----
(***************************************************************************)
(* Model of incubator_simulation.py, a Streamlit script.                   *)
(*                                                                         *)
(* Streamlit executes the whole script once per "run".  A run is started   *)
(* by one user interaction (a button click or a change of sidebar widgets) *)
(* or by the st.rerun() that ends the main loop (line 259).  Each action   *)
(* below is one complete run of the script: widget values are read (lines  *)
(* 73-94), the button handlers act (127-141), and, if the running flag is  *)
(* set after the handlers, simulate_step, the rendering and the Clear Log  *)
(* button follow (197-259).                                                *)
(*                                                                         *)
(* Numbers.  The script computes with floats; the model uses integers in   *)
(* fixed sub-units, fine enough that rounding is visible:                  *)
(*   TEMP  1/1000 degC   (logged rounded to 2 decimals = multiples of 10)  *)
(*   HUMID 1/100  %      (logged rounded to 1 decimal  = multiples of 10)  *)
(*   O2    1/1000 %      (logged rounded to 2 decimals = multiples of 10)  *)
(*   CO2   1/10000 %     (logged rounded to 3 decimals = multiples of 10)  *)
(*   FAN   1/10          (logged rounded to an integer = multiples of 10)  *)
(*   sim_t, sim_speed: milliseconds                                        *)
(* The sinusoid-plus-jitter of lines 150-154 is a nondeterministic choice  *)
(* among sample raw readings inside the ranges those lines can produce.    *)
(***************************************************************************)
EXTENDS Integers, Sequences, FiniteSets, TLC

VARIABLES
    running,         \* st.session_state.running
    alarm_paused,    \* st.session_state.alarm_paused
    log_rows,        \* st.session_state.log_rows
    sim_t,           \* st.session_state.sim_t (ms)
    temp_buffer,     \* st.session_state.temp_buffer
    humid_buffer,    \* st.session_state.humid_buffer
    o2_buffer,       \* st.session_state.o2_buffer
    co2_buffer,      \* st.session_state.co2_buffer
    thresholds,      \* st.session_state.thresholds
    sim_speed,       \* slider "Update interval (ms)"
    simulate_noise,  \* checkbox "Simulate noise/jitter"
    manual_temp,     \* number_input "Manual Temp"
    manual_humid,    \* number_input "Manual Humidity"
    rec,             \* the reading returned by simulate_step in the latest run
    alarm_view,      \* what the "Alarm status" block of the latest run shows
    notice,          \* message of the Save Log CSV handler in the latest run
    csv_out,         \* file written by the latest run
    cmd,             \* what started the latest run
    repeated,        \* the latest run was started like the run before it
    pushed,          \* history: the values appended to the four deques, per call
    nticks           \* number of simulate_step calls so far (wall-clock order)

vars == <<running, alarm_paused, log_rows, sim_t, temp_buffer, humid_buffer,
          o2_buffer, co2_buffer, thresholds, sim_speed, simulate_noise,
          manual_temp, manual_humid, rec, alarm_view, notice, csv_out, cmd,
          repeated, pushed, nticks>>

buffers == <<temp_buffer, humid_buffer, o2_buffer, co2_buffer>>

-----------------------------------------------------------------------------
(* Bounds of the model *)

\* simulate_step calls explored
MaxTicks == 3

\* capacity of the trend deques; the script uses maxlen=300 (lines 39-45)
BufferCapacity == 2

-----------------------------------------------------------------------------
(* Data *)

Params == <<"TEMP", "HUMID", "O2", "CO2", "FAN">>

ParamSet == {"TEMP", "HUMID", "O2", "CO2", "FAN"}

default_thresholds ==
    [TEMP  |-> [min |-> 36000, max |-> 38000],
     HUMID |-> [min |-> 5000,  max |-> 7000],
     O2    |-> [min |-> 19000, max |-> 25000],
     CO2   |-> [min |-> 300,   max |-> 600],
     FAN   |-> [min |-> 0,     max |-> 1000]]

\* min = max = centre of each sinusoid: every boundary case is reachable
TightThresholds ==
    [TEMP  |-> [min |-> 37000, max |-> 37000],
     HUMID |-> [min |-> 6000,  max |-> 6000],
     O2    |-> [min |-> 21000, max |-> 21000],
     CO2   |-> [min |-> 400,   max |-> 400],
     FAN   |-> [min |-> 500,   max |-> 500]]

\* TEMP min > max: the number inputs accept it
InvertedThresholds ==
    [default_thresholds EXCEPT !.TEMP = [min |-> 38000, max |-> 36000]]

\* What the sidebar shows at the start of a run (lines 73-94).  A run started
\* by the sidebar may find several widgets changed since the previous run.
Sidebar(th, speed, noise, mt, mh) ==
    [thresholds |-> th, sim_speed |-> speed, simulate_noise |-> noise,
     manual_temp |-> mt, manual_humid |-> mh]

\* the widgets' defaults: lines 62-68, 87, 88, 93, 94
DefaultSidebar == Sidebar(default_thresholds, 200, TRUE, -1000, -100)

SidebarInputs ==
    { DefaultSidebar,
      Sidebar(TightThresholds, 1000, TRUE, -1000, -100),
      Sidebar(TightThresholds, 200, FALSE, 40000, 5554),
      Sidebar(InvertedThresholds, 1000, TRUE, -1000, -100) }

MidReading ==
    [TEMP |-> 37004, HUMID |-> 6004, O2 |-> 20996, CO2 |-> 404, FAN |-> 496]

LowReading ==
    [TEMP |-> 36504, HUMID |-> 5346, O2 |-> 20204, CO2 |-> 254, FAN |-> 352]

HighReading ==
    [TEMP |-> 37496, HUMID |-> 6654, O2 |-> 21796, CO2 |-> 546, FAN |-> 648]

\* raw values lines 150-154 can produce
Generated(noise) ==
    IF noise THEN {LowReading, MidReading, HighReading} ELSE {MidReading}

NoRec == [ticked |-> FALSE]

NoFile == [written |-> FALSE, lines |-> <<>>]

\* the trend deques the script keeps, by parameter (lines 38-45, 162-165):
\* there is none for FAN
TrendBuffers ==
    [TEMP |-> temp_buffer, HUMID |-> humid_buffer,
     O2 |-> o2_buffer, CO2 |-> co2_buffer]

-----------------------------------------------------------------------------
(* Pure helpers of simulate_step *)

\* round(x, ndigits) on the grid of multiples of q: nearest multiple, an exact
\* tie goes to the even multiple (Python 3 round).
Round(x, q) ==
    LET lo == (x \div q) * q
        r  == x - lo
    IN  IF 2 * r < q THEN lo
        ELSE IF 2 * r > q THEN lo + q
        ELSE IF (lo \div q) % 2 = 0 THEN lo ELSE lo + q

\* mutant: the manual value is ignored
OverrideIgnored(simulated, manual) ==
    simulated

\* lines 157-160: a non-negative manual value replaces the simulated one
Override(simulated, manual) ==
    IF manual >= 0 THEN manual ELSE simulated

\* mutant: appendleft instead of append
PushLeft(buffer, v) ==
    <<v>> \o SubSeq(buffer, 1, Len(buffer) - 1)

\* mutant: a deque without maxlen
PushUnbounded(buffer, v) ==
    Append(buffer, v)

\* mutant: a full deque drops the new value instead of the oldest
PushDropsNewest(buffer, v) ==
    buffer

\* deque(maxlen=N).append(v) on a full deque: the oldest element is discarded
Push(buffer, v) ==
    Append(Tail(buffer), v)

\* mutant: an inverted range is treated as no range at all
ViolatedOnlyIfOrdered(value, lo, hi) ==
    lo <= hi /\ (value < lo \/ value > hi)

\* mutant: the comparisons made inclusive
ViolatedInclusive(value, lo, hi) ==
    value <= lo \/ value >= hi

\* the range test of lines 178, 180, 182, 184, 186
Violated(value, lo, hi) ==
    value < lo \/ value > hi

\* f"{name} {value}"
Entry(name, value) ==
    [name |-> name, value |-> value]

Separator == [name |-> "; ", value |-> 0]

\* mutant: a paused alarm suppresses detection
AlarmListUnlessPaused(r, th) ==
    LET hit(i) == Violated(r[Params[i]], th[Params[i]].min, th[Params[i]].max)
        one(i) == IF hit(i) THEN <<Entry(Params[i], r[Params[i]])>> ELSE <<>>
    IN  IF alarm_paused' THEN <<>>
        ELSE one(1) \o one(2) \o one(3) \o one(4) \o one(5)

\* mutant: the five if statements in the opposite order
AlarmListFanFirst(r, th) ==
    LET hit(i) == Violated(r[Params[i]], th[Params[i]].min, th[Params[i]].max)
        one(i) == IF hit(i) THEN <<Entry(Params[i], r[Params[i]])>> ELSE <<>>
    IN  one(5) \o one(4) \o one(3) \o one(2) \o one(1)

\* lines 176-187: the list alarms, in the order of the five if statements
AlarmList(r, th) ==
    LET hit(i) == Violated(r[Params[i]], th[Params[i]].min, th[Params[i]].max)
        one(i) == IF hit(i) THEN <<Entry(Params[i], r[Params[i]])>> ELSE <<>>
    IN  one(1) \o one(2) \o one(3) \o one(4) \o one(5)

\* "; ".join(alarms): the string as its sequence of pieces
RECURSIVE Join(_)
Join(alarms) ==
    IF Len(alarms) = 0 THEN <<>>
    ELSE IF Len(alarms) = 1 THEN alarms
    ELSE <<Head(alarms), Separator>> \o Join(Tail(alarms))

\* line 189
AlarmString(alarms) ==
    IF alarms # <<>> THEN Join(alarms) ELSE <<>>

\* lines 167-174: the rounded values of the record
Rounded(temp, humid, o2, co2, fan) ==
    [TEMP  |-> Round(temp, 10),
     HUMID |-> Round(humid, 10),
     O2    |-> Round(o2, 10),
     CO2   |-> Round(co2, 10),
     FAN   |-> Round(fan, 10)]

\* lines 167-189: the record simulate_step returns
MakeRec(stamp, temp, humid, o2, co2, fan, th) ==
    LET r == Rounded(temp, humid, o2, co2, fan)
    IN  [ticked |-> TRUE, timestamp |-> stamp,
         TEMP |-> r.TEMP, HUMID |-> r.HUMID, O2 |-> r.O2, CO2 |-> r.CO2,
         FAN |-> r.FAN, alarm |-> AlarmString(AlarmList(r, th))]

\* line 190: the list appended to log_rows
Row(r) ==
    <<r.timestamp, r.TEMP, r.HUMID, r.O2, r.CO2, r.FAN, r.alarm>>

\* lines 242-248: the branch of the Alarm status block
AlarmStatus(alarm, paused) ==
    IF alarm # <<>> /\ ~paused THEN [class |-> "error", text |-> alarm]
    ELSE IF alarm # <<>> /\ paused THEN [class |-> "warning", text |-> alarm]
    ELSE [class |-> "success", text |-> <<>>]

NotRendered == [class |-> "none", text |-> <<>>]

\* mutant: simulate_step called without dt, so its default 0.2 s applies
TickIntervalDefault(speed) ==
    200

\* line 198: dt = sim_speed/1000.0, here in ms
TickInterval(speed) ==
    speed

-----------------------------------------------------------------------------
(* The script *)

Init ==
    /\ running = FALSE
    /\ alarm_paused = FALSE
    /\ log_rows = <<>>
    /\ sim_t = 0
    /\ temp_buffer = [i \in 1..BufferCapacity |-> 37000]
    /\ humid_buffer = [i \in 1..BufferCapacity |-> 6000]
    /\ o2_buffer = [i \in 1..BufferCapacity |-> 21000]
    /\ co2_buffer = [i \in 1..BufferCapacity |-> 400]
    /\ thresholds = DefaultSidebar.thresholds
    /\ sim_speed = DefaultSidebar.sim_speed
    /\ simulate_noise = DefaultSidebar.simulate_noise
    /\ manual_temp = DefaultSidebar.manual_temp
    /\ manual_humid = DefaultSidebar.manual_humid
    /\ rec = NoRec
    /\ alarm_view = NotRendered
    /\ notice = "none"
    /\ csv_out = NoFile
    /\ cmd = "none"
    /\ repeated = FALSE
    /\ pushed = <<>>
    /\ nticks = 0

\* mutant: the Start button toggles the flag
RunningToggledByStart(btn) ==
    IF btn = "stop" THEN FALSE
    ELSE IF btn = "start" THEN ~running
    ELSE running

\* lines 127-130
RunningAfterControls(btn) ==
    IF btn = "stop" THEN FALSE
    ELSE IF btn = "start" THEN TRUE
    ELSE running

\* mutant: the pause button only ever sets the flag
PausedSetByButton(btn) ==
    IF btn = "pause" THEN TRUE ELSE alarm_paused

\* lines 131-132
PausedAfterControls(btn) ==
    IF btn = "pause" THEN ~alarm_paused ELSE alarm_paused

\* the columns of the data frame (line 136): the header line of the file
CsvHeader ==
    <<"timestamp", "TEMP", "HUMID", "O2", "CO2", "FAN", "alarm">>

\* the decimals of a float as to_csv writes them (its repr): the digits
\* after the point without trailing zeros, at least one ("37.0", "0.025");
\* n is the fractional part in units of 1/scale
RECURSIVE FracDigits(_, _)
FracDigits(n, scale) ==
    LET unit == scale \div 10
    IN  IF n % unit = 0 THEN <<n \div unit>>
        ELSE <<n \div unit>> \o FracDigits(n % unit, unit)

\* a float column as text: the whole part and the decimals
FloatText(v, scale) ==
    [whole |-> v \div scale, frac |-> FracDigits(v % scale, scale)]

\* an int column as text: no decimal point (FAN is int(round(fan)))
IntText(v, scale) ==
    [whole |-> v \div scale, frac |-> <<>>]

\* mutant: to_csv called with float_format="%.2f"
CsvLineTwoDecimals(row) ==
    <<row[1], FloatText(row[2], 1000), FloatText(row[3], 100),
      FloatText(row[4], 1000), FloatText(Round(row[5], 100), 10000),
      IntText(row[6], 10), row[7]>>

\* one data line of to_csv(index=False): the seven fields of the row; the
\* timestamp and alarm strings are written as they are (they hold neither
\* comma nor quote), an empty alarm as an empty field
CsvLine(row) ==
    <<row[1], FloatText(row[2], 1000), FloatText(row[3], 100),
      FloatText(row[4], 1000), FloatText(row[5], 10000),
      IntText(row[6], 10), row[7]>>

\* lines 135-138: the file df.to_csv(filename, index=False) writes
ToCsv(rows) ==
    <<CsvHeader>> \o [i \in 1..Len(rows) |-> CsvLine(rows[i])]

\* mutant: the handler writes the file whatever the log holds
SaveLogHandlerAlwaysWrites(btn) ==
    IF btn = "save"
    THEN /\ csv_out' = [written |-> TRUE, lines |-> ToCsv(log_rows)]
         /\ notice' = "saved"
    ELSE /\ csv_out' = NoFile
         /\ notice' = "none"

\* lines 133-141
SaveLogHandler(btn) ==
    IF btn = "save"
    THEN IF log_rows # <<>>
         THEN /\ csv_out' = [written |-> TRUE, lines |-> ToCsv(log_rows)]
              /\ notice' = "saved"
         ELSE /\ csv_out' = NoFile
              /\ notice' = "nodata"
    ELSE /\ csv_out' = NoFile
         /\ notice' = "none"

\* mutant: the main loop tests the flag as it was before the button handlers
MainLoopEnteredOnStaleFlag ==
    running

\* line 197, evaluated after the button handlers
MainLoopEntered ==
    running'

\* lines 146-192 with the generated raw reading raw; the widget values are
\* those of the current run
simulate_step(raw, dt, th, mt, mh) ==
    LET temp  == Override(raw.TEMP, mt)
        humid == Override(raw.HUMID, mh)
    IN  /\ sim_t' = sim_t + dt
        /\ nticks' = nticks + 1
        /\ temp_buffer' = Push(temp_buffer, temp)
        /\ humid_buffer' = Push(humid_buffer, humid)
        /\ o2_buffer' = Push(o2_buffer, raw.O2)
        /\ co2_buffer' = Push(co2_buffer, raw.CO2)
        /\ pushed' = Append(pushed, [temp |-> temp, humid |-> humid,
                                     o2 |-> raw.O2, co2 |-> raw.CO2])
        /\ rec' = MakeRec(nticks + 1, temp, humid, raw.O2, raw.CO2, raw.FAN, th)

\* mutant: the new row replaces the log instead of extending it
LogAfterRunLatestOnly(btn, appended) ==
    IF btn = "clear" THEN <<>> ELSE <<appended[Len(appended)]>>

\* mutant: a tick without alarm appends no row
LogAfterRunOnlyAlarms(btn, appended) ==
    IF btn = "clear" THEN <<>>
    ELSE IF appended[Len(appended)][7] = <<>>
         THEN SubSeq(appended, 1, Len(appended) - 1)
         ELSE appended

\* mutant: the Clear Log button is ignored
LogAfterRunKept(btn, appended) ==
    appended

\* lines 254-256, after simulate_step has appended its row
LogAfterRun(btn, appended) ==
    IF btn = "clear" THEN <<>> ELSE appended

\* One run of the script, started by btn with the sidebar showing th, speed,
\* noise, mt, mh.
Run(btn, th, speed, noise, mt, mh) ==
    /\ cmd' = btn
    /\ repeated' = (btn = cmd)
    /\ thresholds' = th
    /\ sim_speed' = speed
    /\ simulate_noise' = noise
    /\ manual_temp' = mt
    /\ manual_humid' = mh
    /\ running' = RunningAfterControls(btn)
    /\ alarm_paused' = PausedAfterControls(btn)
    /\ SaveLogHandler(btn)
    /\ IF MainLoopEntered
       THEN /\ nticks < MaxTicks
            /\ \E raw \in Generated(noise) :
                   simulate_step(raw, TickInterval(speed), th, mt, mh)
            /\ log_rows' = LogAfterRun(btn, Append(log_rows, Row(rec')))
            /\ alarm_view' = AlarmStatus(rec'.alarm, alarm_paused')
       ELSE /\ UNCHANGED <<sim_t, nticks, buffers, pushed, log_rows>>
            /\ rec' = NoRec
            /\ alarm_view' = NotRendered

SameWidgets(btn) ==
    Run(btn, thresholds, sim_speed, simulate_noise, manual_temp, manual_humid)

Start == SameWidgets("start")

Stop == SameWidgets("stop")

PauseAlarm == SameWidgets("pause")

SaveLog == SameWidgets("save")

\* mutant: the Clear Log button can be pressed on the page of a stopped script
ClearLogWhileStopped ==
    SameWidgets("clear")

\* the Clear Log button exists only on a page the main loop has rendered
ClearLog ==
    /\ running
    /\ SameWidgets("clear")

\* mutant: the script ends without st.rerun()
RerunMissing ==
    /\ FALSE
    /\ UNCHANGED vars

\* line 259: st.rerun() at the end of the main loop
Rerun ==
    /\ running
    /\ SameWidgets("none")

CurrentSidebar ==
    Sidebar(thresholds, sim_speed, simulate_noise, manual_temp, manual_humid)

\* a change of sidebar widgets starts a run
Configure ==
    \E s \in SidebarInputs \ {CurrentSidebar} :
        Run("sidebar", s.thresholds, s.sim_speed, s.simulate_noise,
            s.manual_temp, s.manual_humid)

Next ==
    \/ Start
    \/ Stop
    \/ PauseAlarm
    \/ SaveLog
    \/ ClearLog
    \/ Rerun
    \/ Configure

Spec == Init /\ [][Next]_vars

\* The runs of a session whose sidebar stays at its defaults.
DriverNext ==
    \/ Start
    \/ Stop
    \/ PauseAlarm
    \/ SaveLog
    \/ ClearLog
    \/ Rerun

\* The main loop ends in time.sleep and st.rerun() (lines 258-259): while the
\* script is Running the next run always comes.  A click during the sleep
\* starts a run of its own, which ticks as well and ends in the same
\* st.rerun().
FairSpec == Init /\ [][DriverNext]_vars /\ WF_vars(Rerun)

-----------------------------------------------------------------------------
(* Properties *)

Last(q) == q[Len(q)]

\* the alarm string names parameter p
Flagged(alarm, p) ==
    \E i \in 1..Len(alarm) : alarm[i].name = p

\* the running flag, the pause flag, the log, the clock, the deques and the
\* thresholds
session == <<running, alarm_paused, log_rows, sim_t, buffers, thresholds>>

\* C1: after every tick, under the thresholds of that run, each of TEMP,
\* HUMID, O2, CO2, FAN has an entry in the reading's alarm string if and only
\* if its logged value is strictly below min or strictly above max; a value
\* equal to min or to max is not flagged.  The row appended to the log carries
\* the same alarm string.
C1_FlaggedIffStrictlyOutside ==
    rec.ticked =>
        /\ \A p \in ParamSet :
               Flagged(rec.alarm, p) <=>
                   (rec[p] < thresholds[p].min \/ rec[p] > thresholds[p].max)
        /\ \A p \in ParamSet :
               (rec[p] = thresholds[p].min \/ rec[p] = thresholds[p].max)
                   => ~Flagged(rec.alarm, p)
        /\ cmd # "clear" => Last(log_rows) = Row(rec)

\* a tick with one value below min (flagged), one above max (flagged) and one
\* on the boundary (not flagged)
C1_Witness ==
    /\ rec.ticked
    /\ rec.HUMID < thresholds.HUMID.min /\ Flagged(rec.alarm, "HUMID")
    /\ rec.TEMP > thresholds.TEMP.max /\ Flagged(rec.alarm, "TEMP")
    /\ rec.O2 = thresholds.O2.min /\ rec.FAN = thresholds.FAN.max
    /\ ~Flagged(rec.alarm, "O2") /\ ~Flagged(rec.alarm, "FAN")

\* C2: the script starts Stopped; a run started by the Start button ends
\* Running and a run started by the Stop button ends Stopped, whatever the
\* state before; a run started by anything else leaves the running flag as it
\* was.
C2_RunStateMachine ==
    /\ running = FALSE
    /\ [][/\ cmd' = "start" => running' = TRUE
          /\ cmd' = "stop" => running' = FALSE
          /\ cmd' \notin {"start", "stop"} => running' = running]_vars

\* Stop has been processed after the simulation had run
C2_Witness ==
    /\ cmd = "stop"
    /\ ~running
    /\ nticks > 0

\* C3: a run that ends Stopped (the run that processes Stop, and every run
\* taken while Stopped other than Start) executes no tick: the sim clock, the
\* log and the four deques are unchanged by it.
C3_NoTickWhileStopped ==
    [][running' = FALSE =>
          UNCHANGED <<sim_t, log_rows, buffers, nticks>>]_vars

\* a run taken while Stopped, after ticks had filled the log
C3_Witness ==
    /\ ~running
    /\ cmd \in {"pause", "save", "sidebar"}
    /\ log_rows # <<>>

\* C4: under FairSpec, while the script is Running every tick is followed by
\* another tick unless Stop is processed: from a Running state with k ticks
\* done the tick count eventually exceeds k, or the script is Stopped (k below
\* the bound MaxTicks of the model); and every tick moves the sim clock
\* forward, so the clock grows with the tick count.
C4_TicksRecur ==
    /\ \A k \in 0..(MaxTicks - 1) :
           (running /\ nticks = k) ~> (~running \/ nticks > k)
    /\ [][nticks' # nticks => nticks' = nticks + 1 /\ sim_t' > sim_t]_vars

\* the driver alone has produced the latest of several ticks
C4_Witness ==
    /\ running
    /\ cmd = "none" /\ repeated
    /\ nticks = MaxTicks

\* the values appended to deque b so far, oldest first
Appended(b) == [i \in 1..Len(pushed) |-> pushed[i][b]]

\* the last n elements of q
LastN(q, n) == SubSeq(q, Len(q) - n + 1, Len(q))

\* C5: once more values than the capacity have been appended, each trend
\* deque holds exactly the BufferCapacity most recently appended values of its
\* parameter, oldest first.
C5_BufferHoldsMostRecent ==
    Len(pushed) > BufferCapacity =>
        /\ temp_buffer = LastN(Appended("temp"), BufferCapacity)
        /\ humid_buffer = LastN(Appended("humid"), BufferCapacity)
        /\ o2_buffer = LastN(Appended("o2"), BufferCapacity)
        /\ co2_buffer = LastN(Appended("co2"), BufferCapacity)

\* more appends than the capacity, with distinct values so that the order and
\* the eviction show
C5_Witness ==
    /\ Len(pushed) > BufferCapacity
    /\ pushed[1].o2 # pushed[2].o2
    /\ pushed[2].o2 # pushed[3].o2
    /\ o2_buffer[1] # o2_buffer[BufferCapacity]
    /\ temp_buffer[1] # temp_buffer[BufferCapacity]

\* some parameter of the latest reading lies outside its thresholds
SomeViolation ==
    \E p \in ParamSet :
        rec[p] < thresholds[p].min \/ rec[p] > thresholds[p].max

\* C6: the pause flag does not enter alarm detection: after every tick,
\* paused or not, the alarm string of the reading is non-empty exactly when
\* some parameter lies outside its thresholds, it is the alarm field of the
\* appended row, and the Alarm status block shows that same string, as
\* "paused" (warning) when AlarmPaused is set and as "active" (error) when it
\* is not; without a violation the block shows "normal".
C6_PauseOnlyChangesPresentation ==
    rec.ticked =>
        /\ (rec.alarm # <<>>) <=> SomeViolation
        /\ cmd # "clear" => Last(log_rows)[7] = rec.alarm
        /\ SomeViolation /\ alarm_paused =>
               alarm_view = [class |-> "warning", text |-> rec.alarm]
        /\ SomeViolation /\ ~alarm_paused =>
               alarm_view = [class |-> "error", text |-> rec.alarm]
        /\ ~SomeViolation => alarm_view.class = "success"

\* a violation detected and logged while the alarm is paused
C6_Witness ==
    /\ rec.ticked
    /\ alarm_paused
    /\ SomeViolation
    /\ log_rows # <<>> /\ Last(log_rows)[7] = rec.alarm /\ rec.alarm # <<>>
    /\ alarm_view.class = "warning"

ControlCommands == {"start", "stop", "pause", "clear"}

\* C7 as claimed: a run started by the same control command as the run before
\* it leaves the session state as that earlier run left it.
C7_Claimed_EveryCommandIdempotent ==
    [][(cmd' \in ControlCommands /\ repeated') => UNCHANGED session]_vars

\* C7 (amended): Stop is idempotent: a second Stop in succession leaves the
\* whole session state unchanged.  A second Start leaves the running flag
\* set, and a second Clear Log leaves the log empty, but each of these runs
\* also executes one tick (clock advanced, one value pushed to each deque).
\* Pause/Resume is not idempotent: every run it starts inverts AlarmPaused,
\* so the second of two in succession restores the value before the first.
\* None of the four changes the thresholds, and Start, Stop and Clear Log
\* leave AlarmPaused alone.
C7_IdempotentWhereItIs ==
    [][(cmd' \in ControlCommands /\ repeated') =>
          /\ cmd' = "stop" => UNCHANGED session
          /\ cmd' = "start" =>
                 /\ running /\ running'
                 /\ nticks' = nticks + 1
                 /\ UNCHANGED <<alarm_paused, thresholds>>
          /\ cmd' = "clear" =>
                 /\ log_rows = <<>> /\ log_rows' = <<>>
                 /\ nticks' = nticks + 1
                 /\ UNCHANGED <<running, alarm_paused, thresholds>>
          /\ cmd' = "pause" =>
                 /\ alarm_paused' = ~alarm_paused
                 /\ UNCHANGED <<running, thresholds>>]_vars

\* the second of two Pause/Resume runs in succession has left the alarm
\* paused, as it was before the first of the two
C7_Witness ==
    /\ cmd = "pause" /\ repeated
    /\ alarm_paused
    /\ nticks > 0

\* the raw reading the latest tick generated, as far as the deques show it
GeneratedBy(g) ==
    /\ g.O2 = Last(o2_buffer)
    /\ g.CO2 = Last(co2_buffer)

\* C8 as claimed: with a non-negative manual value the logged TEMP (HUMID)
\* equals the manual value.
C8_Claimed_LoggedEqualsManual ==
    rec.ticked =>
        /\ manual_temp >= 0 => rec.TEMP = manual_temp
        /\ manual_humid >= 0 => rec.HUMID = manual_humid

\* C8 (amended): in every tick where manual_temp is non-negative the value
\* appended to the TEMP deque is manual_temp and the logged TEMP is
\* manual_temp rounded to 2 decimals (equal to manual_temp only when that has
\* at most 2 decimals), whatever the sim time and the noise setting; likewise
\* HUMID with manual_humid rounded to 1 decimal.  With a negative manual value
\* the generated value is used.  O2, CO2 and FAN are always the generated
\* values (rounded in the log).
C8_ManualOverride ==
    rec.ticked =>
        \E g \in Generated(simulate_noise) :
            /\ GeneratedBy(g)
            /\ rec.O2 = Round(g.O2, 10)
            /\ rec.CO2 = Round(g.CO2, 10)
            /\ rec.FAN = Round(g.FAN, 10)
            /\ IF manual_temp >= 0
               THEN /\ Last(temp_buffer) = manual_temp
                    /\ rec.TEMP = Round(manual_temp, 10)
               ELSE /\ Last(temp_buffer) = g.TEMP
                    /\ rec.TEMP = Round(g.TEMP, 10)
            /\ IF manual_humid >= 0
               THEN /\ Last(humid_buffer) = manual_humid
                    /\ rec.HUMID = Round(manual_humid, 10)
               ELSE /\ Last(humid_buffer) = g.HUMID
                    /\ rec.HUMID = Round(g.HUMID, 10)

\* a tick under both overrides: TEMP logged as given, HUMID logged rounded
C8_Witness ==
    /\ rec.ticked
    /\ manual_temp >= 0 /\ rec.TEMP = manual_temp
    /\ manual_humid >= 0 /\ rec.HUMID # manual_humid
    /\ Last(humid_buffer) = manual_humid
    /\ sim_t > 1000

\* the slider's range, line 87
MinInterval == 50

MaxInterval == 1000

\* C9: the sim clock starts at 0; a run that executes a tick adds exactly the
\* interval configured in that run, which lies in 50..1000 ms, and a run that
\* executes no tick leaves the clock unchanged; so the clock never decreases.
C9_ClockAdvancesByInterval ==
    /\ sim_t = 0
    /\ [][/\ sim_speed' \in MinInterval..MaxInterval
          /\ IF nticks' # nticks
             THEN sim_t' = sim_t + sim_speed'
             ELSE sim_t' = sim_t
          /\ sim_t' >= sim_t]_vars

\* ticks at two different intervals have added up
C9_Witness ==
    /\ nticks = 2
    /\ sim_t = 1200

\* C10 as claimed: the run that processes Clear Log empties the log and leaves
\* the deques, the sim clock, the running flag, AlarmPaused and the thresholds
\* unchanged.
C10_Claimed_ClearLeavesRestUnchanged ==
    [][cmd' = "clear" =>
          /\ log_rows' = <<>>
          /\ UNCHANGED <<buffers, sim_t, running, alarm_paused, thresholds>>]_vars

\* all of deque b but its oldest element is kept, in order, by one append
KeptByOneAppend(before, after) ==
    SubSeq(after, 1, Len(after) - 1) = Tail(before)

\* C10 (amended): the run that processes Clear Log leaves the log empty and
\* the running flag, AlarmPaused and the thresholds unchanged.  The deques
\* are not reset, but that run executes a tick before the clear: the sim
\* clock advances by one tick interval and each deque takes that tick's
\* value, evicting its oldest element.
C10_ClearEmptiesLogAfterTick ==
    [][cmd' = "clear" =>
          /\ log_rows' = <<>>
          /\ UNCHANGED <<running, alarm_paused, thresholds>>
          /\ sim_t' = sim_t + sim_speed
          /\ KeptByOneAppend(temp_buffer, temp_buffer')
          /\ KeptByOneAppend(humid_buffer, humid_buffer')
          /\ KeptByOneAppend(o2_buffer, o2_buffer')
          /\ KeptByOneAppend(co2_buffer, co2_buffer')
          /\ rec'.ticked]_vars

\* Clear Log processed on a log that held rows
C10_Witness ==
    /\ cmd = "clear"
    /\ log_rows = <<>>
    /\ nticks >= 2
    /\ Len(pushed) = nticks

\* C11 as claimed: after a tick each of TEMP, HUMID, O2, CO2 and FAN has a
\* trend deque whose newest element is that tick's value of the parameter
\* (up to the rounding of the record).
C11_Claimed_FiveBuffers ==
    rec.ticked =>
        \A p \in ParamSet :
            /\ p \in DOMAIN TrendBuffers
            /\ Round(Last(TrendBuffers[p]), 10) = rec[p]

\* C11 (amended): each tick appends the reading to the log and pushes the
\* unrounded TEMP, HUMID, O2 and CO2 of the tick to the four trend deques:
\* after a tick the newest element of each of these four is the value the
\* tick appended, which rounds to the logged value.  FAN is logged but has no
\* trend deque.
C11_FourBuffersTakeTheTick ==
    rec.ticked =>
        /\ DOMAIN TrendBuffers = ParamSet \ {"FAN"}
        /\ Last(temp_buffer) = Last(pushed).temp
        /\ Last(humid_buffer) = Last(pushed).humid
        /\ Last(o2_buffer) = Last(pushed).o2
        /\ Last(co2_buffer) = Last(pushed).co2
        /\ \A p \in DOMAIN TrendBuffers :
               Round(Last(TrendBuffers[p]), 10) = rec[p]
        /\ cmd # "clear" => Last(log_rows) = Row(rec)
        /\ \E g \in Generated(simulate_noise) :
               GeneratedBy(g) /\ rec.FAN = Round(g.FAN, 10)

\* a tick whose values differ from what the deques held before, and whose
\* unrounded TEMP differs from the logged one
C11_Witness ==
    /\ rec.ticked
    /\ Len(log_rows) >= 2
    /\ Last(log_rows) = Row(rec)
    /\ Last(temp_buffer) # rec.TEMP
    /\ temp_buffer[BufferCapacity - 1] # Last(temp_buffer)
    /\ co2_buffer[BufferCapacity - 1] # Last(co2_buffer)

\* C12: the log is append-only and its rows never change: a run started by
\* anything but Clear Log leaves the log as it was when it executes no tick,
\* and extends it by exactly one row, the reading of its tick, at the end
\* when it does; the rows already there keep their content (alarm field
\* included, whatever the thresholds have become) and their order.
C12_LogAppendOnly ==
    [][cmd' # "clear" =>
          /\ SubSeq(log_rows', 1, Len(log_rows)) = log_rows
          /\ IF nticks' # nticks
             THEN log_rows' = Append(log_rows, Row(rec'))
             ELSE log_rows' = log_rows]_vars

\* after a change of thresholds and a further tick the first row still has
\* the empty alarm field it was logged with, although its TEMP violates the
\* thresholds now in force
C12_Witness ==
    /\ Len(log_rows) >= 2
    /\ log_rows[1][7] = <<>>
    /\ Violated(log_rows[1][2], thresholds.TEMP.min, thresholds.TEMP.max)
    /\ Last(log_rows)[7] # <<>>

\* C13 as claimed: the export command with an empty log writes no file and
\* reports it as information, and in every case leaves the log, the deques,
\* the sim clock, the running flag and AlarmPaused unchanged.
C13_Claimed_ExportChangesNothing ==
    [][cmd' = "save" =>
          /\ log_rows = <<>> => csv_out' = NoFile /\ notice' = "nodata"
          /\ UNCHANGED <<log_rows, buffers, sim_t, running, alarm_paused>>]_vars

\* C13 (amended): Save Log CSV with an empty log writes no file and shows
\* the information "No data to save yet."; with a non-empty log it writes a
\* file and reports success.  The handler leaves the running flag,
\* AlarmPaused and the thresholds unchanged.  While stopped the run leaves
\* the log, the deques and the sim clock unchanged too; while running the
\* run goes on to execute one tick after the export: the log gains that
\* tick's row, the clock advances by the tick interval and each deque takes
\* one value.
C13_ExportThenTickIfRunning ==
    [][cmd' = "save" =>
          /\ IF log_rows = <<>>
             THEN csv_out' = NoFile /\ notice' = "nodata"
             ELSE csv_out'.written /\ notice' = "saved"
          /\ UNCHANGED <<running, alarm_paused, thresholds>>
          /\ IF running
             THEN /\ rec'.ticked
                  /\ log_rows' = Append(log_rows, Row(rec'))
                  /\ sim_t' = sim_t + sim_speed
                  /\ \A p \in DOMAIN TrendBuffers :
                         KeptByOneAppend(TrendBuffers[p], TrendBuffers'[p])
             ELSE UNCHANGED <<log_rows, buffers, sim_t>>]_vars

\* Save Log CSV pressed while running on an empty log: nothing written, the
\* information shown, and the run has ticked
C13_Witness ==
    /\ cmd = "save"
    /\ notice = "nodata"
    /\ csv_out = NoFile
    /\ running
    /\ rec.ticked
    /\ log_rows = <<Row(rec)>>

\* what a CSV reader makes of a number written by to_csv
RECURSIVE FracValue(_, _)
FracValue(digits, scale) ==
    IF digits = <<>> THEN 0
    ELSE Head(digits) * (scale \div 10) + FracValue(Tail(digits), scale \div 10)

ParseNumber(text, scale) ==
    text.whole * scale + FracValue(text.frac, scale)

ParseLine(line) ==
    <<line[1], ParseNumber(line[2], 1000), ParseNumber(line[3], 100),
      ParseNumber(line[4], 1000), ParseNumber(line[5], 10000),
      ParseNumber(line[6], 10), line[7]>>

\* C14: export round trip: the file written for a log of N readings is the
\* header line followed by exactly N data lines, and parsing data line i
\* gives the fields timestamp, TEMP, HUMID, O2, CO2, FAN, alarm of the i-th
\* logged reading, in log order.
C14_ExportRoundTrip ==
    [][csv_out'.written =>
          /\ Len(csv_out'.lines) = Len(log_rows) + 1
          /\ csv_out'.lines[1] = CsvHeader
          /\ \A i \in 1..Len(log_rows) :
                 /\ Len(csv_out'.lines[i + 1]) = 7
                 /\ ParseLine(csv_out'.lines[i + 1]) = log_rows[i]]_vars

\* a file of two readings, one with three decimals of CO2 and an alarm, the
\* other without alarm
C14_Witness ==
    /\ csv_out.written
    /\ Len(csv_out.lines) = 3
    /\ \E i, j \in 2..3 :
           /\ csv_out.lines[i][5].frac = <<0, 2, 5>>
           /\ csv_out.lines[i][7] # <<>>
           /\ csv_out.lines[j][7] = <<>>
           /\ csv_out.lines[j][2].frac = <<0>>

\* the position of parameter p in the order TEMP, HUMID, O2, CO2, FAN
Rank(p) == CHOOSE i \in 1..Len(Params) : Params[i] = p

\* C15: the alarm string of a reading is its violation entries joined with
\* "; ": entries and separators alternate, beginning and ending with an
\* entry; the entries name parameters in the order TEMP, HUMID, O2, CO2, FAN,
\* each at most once, and exactly the violated ones, each with its logged
\* value; the string is empty if and only if no parameter is violated.
C15_AlarmEntriesInFixedOrder ==
    rec.ticked =>
        LET a == rec.alarm
            odd == {i \in 1..Len(a) : i % 2 = 1}
        IN  /\ a # <<>> => Len(a) % 2 = 1
            /\ \A i \in 1..Len(a) :
                   IF i \in odd
                   THEN a[i].name \in ParamSet /\ a[i] = Entry(a[i].name, rec[a[i].name])
                   ELSE a[i] = Separator
            /\ \A i, j \in odd : i < j => Rank(a[i].name) < Rank(a[j].name)
            /\ \A p \in ParamSet :
                   Flagged(a, p) <=>
                       Violated(rec[p], thresholds[p].min, thresholds[p].max)
            /\ a = <<>> <=> ~SomeViolation

\* TEMP and CO2 violated, HUMID, O2 and FAN in range: the string is the
\* TEMP entry, the separator, the CO2 entry
C15_Witness ==
    /\ rec.ticked
    /\ Len(rec.alarm) = 3
    /\ rec.alarm[1].name = "TEMP"
    /\ rec.alarm[2] = Separator
    /\ rec.alarm[3].name = "CO2"

\* the number of rows the log has now and had in the state before
RowsAdded == Len(log_rows') - Len(log_rows)

Inverted(p) == thresholds[p].min > thresholds[p].max

\* C17: thresholds with min > max are accepted as they are, and while they
\* last every tick flags that parameter whatever its value: the alarm string
\* of the reading names it, so the alarm field of the row the tick logs is
\* not empty, and the alarm block of the page shows the string, not "All
\* parameters normal".
C17_InvertedThresholdsAlwaysAlarm ==
    \A p \in ParamSet :
        (rec.ticked /\ Inverted(p)) =>
            /\ Flagged(rec.alarm, p)
            /\ rec.alarm # <<>>
            /\ alarm_view.class \in {"error", "warning"}
            /\ cmd # "clear" => Last(log_rows)[7] = rec.alarm

\* TEMP min 38.0 > max 36.0 in force over two ticks whose TEMP lies between
\* them: both rows carry a TEMP entry
C17_Witness ==
    /\ Inverted("TEMP")
    /\ rec.ticked
    /\ thresholds.TEMP.max < rec.TEMP /\ rec.TEMP < thresholds.TEMP.min
    /\ Len(log_rows) >= 2
    /\ Flagged(Last(log_rows)[7], "TEMP")
    /\ Flagged(log_rows[Len(log_rows) - 1][7], "TEMP")
    /\ log_rows[Len(log_rows) - 1][2] # rec.TEMP

\* the placeholders 37.0, 60.0, 21.0 and 0.04 in the units of the deques
Placeholder == [TEMP |-> 37000, HUMID |-> 6000, O2 |-> 21000, CO2 |-> 400]

\* the values the ticks so far have appended to the deque of parameter p
AppendedTo(p) ==
    Appended(CASE p = "TEMP" -> "temp" [] p = "HUMID" -> "humid"
               [] p = "O2" -> "o2" [] p = "CO2" -> "co2")

\* n copies of v
Fill(n, v) == [i \in 1..n |-> v]

\* C18: in every reachable state every trend deque holds exactly
\* BufferCapacity elements (300 in the script).  It starts full of the
\* parameter's placeholder, and each tick appends one value and discards the
\* oldest element: after k < BufferCapacity ticks it is BufferCapacity - k
\* placeholders followed by the k values of those ticks, and from then on the
\* latest BufferCapacity values.
C18_BuffersAlwaysFull ==
    \A p \in DOMAIN TrendBuffers :
        LET k == Len(pushed)
        IN  /\ Len(TrendBuffers[p]) = BufferCapacity
            /\ k < BufferCapacity =>
                   TrendBuffers[p] =
                       Fill(BufferCapacity - k, Placeholder[p]) \o AppendedTo(p)
            /\ TrendBuffers[p] =
                   LastN(Fill(BufferCapacity, Placeholder[p]) \o AppendedTo(p),
                         BufferCapacity)

\* after one tick: the placeholders that remain, then the value of the tick,
\* different from the placeholder
C18_Witness ==
    /\ Len(pushed) = 1
    /\ Len(temp_buffer) = BufferCapacity
    /\ temp_buffer[BufferCapacity - 1] = Placeholder.TEMP
    /\ temp_buffer[BufferCapacity] = pushed[1].temp
    /\ pushed[1].temp # Placeholder.TEMP
    /\ co2_buffer[BufferCapacity - 1] = Placeholder.CO2
    /\ co2_buffer[BufferCapacity] # Placeholder.CO2

\* C19: Clear Log takes effect only while running, and only in a run that
\* has executed a tick first: a run that processes it starts and ends with
\* the running flag set, executes one tick and leaves the log empty although
\* that tick appended a row.  While stopped no step makes the log shorter,
\* and no step but a Clear Log run ever does.
C19_ClearOnlyWhileRunningAfterTick ==
    [][/\ cmd' = "clear" =>
              /\ running /\ running'
              /\ rec'.ticked
              /\ nticks' = nticks + 1
              /\ sim_t' = sim_t + sim_speed
              /\ Last(pushed').temp = Last(temp_buffer')
              /\ log_rows' = <<>>
       /\ ~running => cmd' # "clear" /\ Len(log_rows') >= Len(log_rows)
       /\ Len(log_rows') < Len(log_rows) => cmd' = "clear"]_vars

\* Clear Log processed: the run has ticked (its reading is on the page, the
\* clock and the deques have moved) and the log is empty; it held rows before
C19_Witness ==
    /\ cmd = "clear"
    /\ running
    /\ rec.ticked
    /\ rec.timestamp = nticks
    /\ nticks = MaxTicks
    /\ Last(temp_buffer) = Last(pushed).temp
    /\ alarm_view # NotRendered
    /\ log_rows = <<>>

====
